---- MODULE Spec2Model ----
(***************************************************************************)
(* Model of src/cpu_core.py (class CpuCore): the process table, the four   *)
(* queues, the memory counter, the scheduler thread and the worker threads *)
(* it starts.  Pids are zero based as in the code; the process with pid p  *)
(* is processes[p + 1].  Queues hold pids (references to the processes).   *)
(*                                                                         *)
(* The model follows what the Python statements do when they are executed: *)
(*   - line 68, self.memory_lock.wait(): a threading.Lock has no method    *)
(*     wait, so the statement raises AttributeError; the two enclosing     *)
(*     with-blocks release memory_lock and the semaphore and scheduler()   *)
(*     ends with the exception;                                            *)
(*   - lines 75-76, Thread(target=self.run_process, args=pid): args is an  *)
(*     int, so Thread.run's unpacking of the arguments raises              *)
(*     TypeError inside the new thread before run_process is entered; the  *)
(*     thread ends and none of lines 80-100 is executed;                   *)
(*   - line 72, `with semaphore` encloses only the start of the thread, so *)
(*     the permit is given back once start() has returned, whether the     *)
(*     thread has ended by then or not.                                    *)
(***************************************************************************)
EXTENDS Naturals, Integers, Sequences, FiniteSets

\* ---------------------------------------------------------------- bounds
MaxProcs == 5
\* number of direct calls of its methods the main thread makes
MaxCalls == 3
\* size of the process table in the runs with direct calls
MaxCallProcs == 2

\* ------------------------------------------------------ program constants
TotalMemory == 1024
SemaphoreInit == 4
time_slice == 3

\* ------------------------------------------------------- workload inputs
\* memory demands a program file may state (<memory> element); line 28
\* takes any integer, zero and negative ones included
MemChoices == {-100, 0, 200, 600, 1024}

\* operation descriptors of a program file: name, <min>, <max> and whether
\* o.find('critical') is truthy for that <operation> element
CalcDesc == [name |-> "CALCULATE", min |-> 5, max |-> 5, crit |-> FALSE]
IoDesc == [name |-> "I/O", min |-> 1, max |-> 1, crit |-> TRUE]
ForkDesc == [name |-> "FORK", min |-> 1, max |-> 1, crit |-> FALSE]
FileChoices == { <<CalcDesc>>, <<IoDesc, ForkDesc>> }

\* the program files submitted: one per memory demand, the two operation
\* lists in turn
ProgramFiles ==
    { file \in [memory : MemChoices, descs : FileChoices] :
        file.descs = <<CalcDesc>> <=> file.memory \in {-100, 200, 1024} }

VARIABLES
    processes,          \* self.processes: sequence of process records
    new_queue,          \* self.new_queue: sequence of pids
    ready_queue,        \* self.ready_queue
    waiting_queue,      \* self.waiting_queue
    exit_queue,         \* self.exit_queue
    pid_counter,        \* self.pid_counter
    memory_available,   \* self.memory_available
    memory_lock,        \* self.memory_lock: "free" or the holder
    critical_lock,      \* self.critical_lock: "free" or the holder
    semaphore,          \* permits left of the scheduler's local Semaphore(4)
    pc,                 \* position of the main thread
    process,            \* scheduler local `process` (a pid) or -1
    threads,            \* worker threads started so far: [pid, status]
    calls,              \* how the direct calls made so far have ended
    programs            \* per pid, the operations its program file stated

vars == <<processes, new_queue, ready_queue, waiting_queue, exit_queue,
          pid_counter, memory_available, memory_lock, critical_lock,
          semaphore, pc, process, threads, calls, programs>>

\* ---------------------------------------------------- Process / Operation
\* Operation(name, min_time, max_time, critical) with its cycle length
\* drawn from min_time..max_time
Operation(name, cycles, critical) ==
    [name |-> name, cycle_length |-> cycles, critical |-> critical]

\* Process(pid, memory): a new PCB
Process(pid, memory) ==
    [pid |-> pid, memory |-> memory, state |-> "NEW",
     operations |-> <<>>, clock_time |-> 0]

set_ready(p) == [p EXCEPT !.state = "READY"]
set_run(p) == [p EXCEPT !.state = "RUNNING"]
set_wait(p) == [p EXCEPT !.state = "WAITING"]
increment_clock_time(p, n) == [p EXCEPT !.clock_time = @ + n]

\* the process table entry of a pid
Proc(pid) == processes[pid + 1]
Pids == 0 .. (Len(processes) - 1)

\* ------------------------------------------------------ generate_from_file
\* lines 29-38: the flag `critical` is set once and never reset, so every
\* operation after the first one with a truthy <critical> is critical too
RECURSIVE StickyCritical(_, _)
StickyCritical(descs, i) ==
    IF i = 0 THEN FALSE
    ELSE descs[i].crit \/ StickyCritical(descs, i - 1)

BuildOperations(descs, cycles) ==
    [i \in 1 .. Len(descs) |->
        Operation(descs[i].name, cycles[i], StickyCritical(descs, i))]

CycleChoices(descs) ==
    { c \in [1 .. Len(descs) -> 1 .. 5] :
        \A i \in 1 .. Len(descs) : c[i] \in descs[i].min .. descs[i].max }

\* lines 30 and 39-41 with the pid taken from the queue length
generate_from_file_QueuePid(memory, descs, cycles) ==
    LET new_process == [Process(Len(new_queue), memory) EXCEPT
                          !.operations = BuildOperations(descs, cycles)]
    IN  /\ processes' = Append(processes, new_process)
        /\ new_queue' = Append(new_queue, new_process.pid)
        /\ pid_counter' = pid_counter + 1

\* lines 23-42: build the process, append it to processes and new_queue
generate_from_file(memory, descs, cycles) ==
    LET new_process == [Process(pid_counter, memory) EXCEPT
                          !.operations = BuildOperations(descs, cycles)]
    IN  /\ processes' = Append(processes, new_process)
        /\ new_queue' = Append(new_queue, new_process.pid)
        /\ pid_counter' = pid_counter + 1

\* --------------------------------------------------------- load_to_memory
\* line 46: the admission test
FitsInMemory(memory, available) == memory < available

\* lines 47-49 on a process table, ready queue and counter
LoadMemoryNoDeduct(available, memory) == available
LoadProcessesRun(procs, pid) == [procs EXCEPT ![pid + 1] = set_run(@)]
LoadProcesses(procs, pid) == [procs EXCEPT ![pid + 1] = set_ready(@)]
LoadReadyFront(ready, pid) == <<pid>> \o ready
LoadReady(ready, pid) == Append(ready, pid)
LoadMemory(available, memory) == available - memory

\* load_to_memory(pid), lines 44-54, and the value it returns.  The test
\* of line 46 looks at the memory counter only: the state of the process
\* and the queues it is in play no part.
load_to_memory(pid, result) ==
    IF FitsInMemory(Proc(pid).memory, memory_available)
    THEN /\ processes' = LoadProcesses(processes, pid)
         /\ ready_queue' = LoadReady(ready_queue, pid)
         /\ memory_available' = LoadMemory(memory_available, Proc(pid).memory)
         /\ result = TRUE
    ELSE /\ UNCHANGED <<processes, ready_queue, memory_available>>
         /\ result = FALSE

\* ------------------------------------------------------------- scheduler
\* line 64: new_queue.pop(0) takes the element at this position
PopIndexLast(q) == Len(q)
PopIndex(q) == 1

RemoveAt(q, i) == SubSeq(q, 1, i - 1) \o SubSeq(q, i + 1, Len(q))

\* line 67: new_queue.insert(0, new_process)
InsertFront(q, pid) == <<pid>> \o q

Alive == { i \in 1 .. Len(threads) : threads[i].status = "started" }

\* positions of the main thread outside scheduler(): before a call of it,
\* after its return and after its AttributeError (caught by the caller).
\* There the main thread may call any method of the core.
CallPoints == {"idle", "returned", "raised"}

Init ==
    /\ processes = <<>>
    /\ new_queue = <<>>
    /\ ready_queue = <<>>
    /\ waiting_queue = <<>>
    /\ exit_queue = <<>>
    /\ pid_counter = 0
    /\ memory_available = TotalMemory
    /\ memory_lock = "free"
    /\ critical_lock = "free"
    /\ semaphore = SemaphoreInit
    /\ pc = "idle"
    /\ process = -1
    /\ threads = <<>>
    /\ calls = <<>>
    /\ programs = <<>>

\* the main thread submits a program file (lines 23-42)
GenerateFromFile ==
    /\ pc \in CallPoints
    /\ pid_counter < MaxProcs
    /\ \E file \in ProgramFiles :
         \E cycles \in CycleChoices(file.descs) :
            /\ generate_from_file(file.memory, file.descs, cycles)
            /\ programs' = Append(programs,
                                  BuildOperations(file.descs, cycles))
    /\ pc' = "idle"
    /\ UNCHANGED <<ready_queue, waiting_queue, exit_queue, memory_available,
                   memory_lock, critical_lock, semaphore, process, threads,
                   calls>>

\* the main thread calls scheduler(): lines 58 and 61
SchedulerCall ==
    /\ pc \in CallPoints
    /\ semaphore' = SemaphoreInit - 1
    /\ pc' = "adm_check"
    /\ UNCHANGED <<processes, new_queue, ready_queue, waiting_queue,
                   exit_queue, pid_counter, memory_available, memory_lock,
                   critical_lock, process, threads, calls, programs>>

\* line 62 true, line 63: acquire memory_lock
SchedLockMemory ==
    /\ pc = "adm_check"
    /\ Len(new_queue) > 0
    /\ memory_lock = "free"
    /\ memory_lock' = "scheduler"
    /\ pc' = "adm_body"
    /\ UNCHANGED <<processes, new_queue, ready_queue, waiting_queue,
                   exit_queue, pid_counter, memory_available, critical_lock,
                   semaphore, process, threads, calls, programs>>

\* lines 64-66 with load_to_memory returning True; memory_lock released
SchedAdmit ==
    /\ pc = "adm_body"
    /\ LET i == PopIndex(new_queue)
           pid == new_queue[i]
       IN  /\ new_queue' = RemoveAt(new_queue, i)
           /\ load_to_memory(pid, TRUE)
    /\ memory_lock' = "free"
    /\ pc' = "adm_check"
    /\ UNCHANGED <<waiting_queue, exit_queue, pid_counter, critical_lock,
                   semaphore, process, threads, calls, programs>>

\* lines 64-68 with load_to_memory returning False: the process is put
\* back at the front, memory_lock.wait() raises AttributeError, both
\* with-blocks are left and scheduler() ends with the exception
SchedAdmitFail ==
    /\ pc = "adm_body"
    /\ LET i == PopIndex(new_queue)
           pid == new_queue[i]
       IN  /\ new_queue' = InsertFront(RemoveAt(new_queue, i), pid)
           /\ load_to_memory(pid, FALSE)
    /\ memory_lock' = "free"
    /\ semaphore' = semaphore + 1
    /\ pc' = "raised"
    /\ UNCHANGED <<waiting_queue, exit_queue, pid_counter, critical_lock,
                   process, threads, calls, programs>>

\* line 62 false: the admission with-block is left
SchedAdmissionDone ==
    /\ pc = "adm_check"
    /\ Len(new_queue) = 0
    /\ semaphore' = semaphore + 1
    /\ pc' = "disp_check"
    /\ UNCHANGED <<processes, new_queue, ready_queue, waiting_queue,
                   exit_queue, pid_counter, memory_available, memory_lock,
                   critical_lock, process, threads, calls, programs>>

\* lines 70-71 reading the head without removing it
SchedPopKeep ==
    /\ pc = "disp_check"
    /\ Len(ready_queue) > 0
    /\ process' = Head(ready_queue)
    /\ pc' = "disp_sem"
    /\ UNCHANGED <<processes, new_queue, ready_queue, waiting_queue,
                   exit_queue, pid_counter, memory_available, memory_lock,
                   critical_lock, semaphore, threads, calls, programs>>

\* lines 70-71: the ready queue is not empty, pop its head
SchedPop ==
    /\ pc = "disp_check"
    /\ Len(ready_queue) > 0
    /\ process' = Head(ready_queue)
    /\ ready_queue' = Tail(ready_queue)
    /\ pc' = "disp_sem"
    /\ UNCHANGED <<processes, new_queue, waiting_queue, exit_queue,
                   pid_counter, memory_available, memory_lock, critical_lock,
                   semaphore, threads, calls, programs>>

\* line 72: acquire a permit
SchedAcquire ==
    /\ pc = "disp_sem"
    /\ semaphore > 0
    /\ semaphore' = semaphore - 1
    /\ pc' = "disp_start"
    /\ UNCHANGED <<processes, new_queue, ready_queue, waiting_queue,
                   exit_queue, pid_counter, memory_available, memory_lock,
                   critical_lock, process, threads, calls, programs>>

\* lines 73-76: mark the process RUNNING, create and start its thread;
\* the permit of line 72 is still held and the local `process` stays bound
SchedStart ==
    /\ pc = "disp_start"
    /\ processes' = [processes EXCEPT ![process + 1] = set_run(@)]
    /\ threads' = Append(threads, [pid |-> process, status |-> "started"])
    /\ pc' = "disp_release"
    /\ UNCHANGED <<new_queue, ready_queue, waiting_queue, exit_queue,
                   pid_counter, memory_available, memory_lock, critical_lock,
                   semaphore, process, calls, programs>>

\* the with-block of line 72 is left: the permit is given back
SchedRelease ==
    /\ pc = "disp_release"
    /\ semaphore' = semaphore + 1
    /\ pc' = "disp_check"
    /\ UNCHANGED <<processes, new_queue, ready_queue, waiting_queue,
                   exit_queue, pid_counter, memory_available, memory_lock,
                   critical_lock, process, threads, calls, programs>>

\* line 70 false: scheduler() returns and its locals are gone
SchedReturn ==
    /\ pc = "disp_check"
    /\ Len(ready_queue) = 0
    /\ pc' = "returned"
    /\ process' = -1
    /\ UNCHANGED <<processes, new_queue, ready_queue, waiting_queue,
                   exit_queue, pid_counter, memory_available, memory_lock,
                   critical_lock, semaphore, threads, calls, programs>>

\* a started thread runs: unpacking args=pid raises TypeError, the thread
\* ends without executing any statement of run_process
WorkerRun(i) ==
    /\ threads[i].status = "started"
    /\ threads' = [threads EXCEPT ![i].status = "TypeError"]
    /\ UNCHANGED <<processes, new_queue, ready_queue, waiting_queue,
                   exit_queue, pid_counter, memory_available, memory_lock,
                   critical_lock, semaphore, pc, process, calls, programs>>

Next ==
    \/ GenerateFromFile
    \/ SchedulerCall
    \/ SchedLockMemory
    \/ SchedAdmit
    \/ SchedAdmitFail
    \/ SchedAdmissionDone
    \/ SchedPop
    \/ SchedAcquire
    \/ SchedStart
    \/ SchedRelease
    \/ SchedReturn
    \/ \E i \in 1 .. Len(threads) : WorkerRun(i)

Spec == Init /\ [][Next]_vars

\* ------------------------------------------------------------ run_process
\* line 80: operations.pop(0) on the process of the pid
PopOperation(procs, pid) ==
    [procs EXCEPT ![pid + 1].operations = Tail(@)]

\* run_process(pid), lines 78-100, with a non-empty backlog.  Line 80 pops
\* the first operation.  For a critical operation line 84 reads
\* self._critical_lock, an attribute __init__ never sets: AttributeError.
\* Otherwise line 89 calls run_op(operation, pid) against the signature
\* run_op(self, pid, operation), so line 104 asks the int for
\* get_cycle_length: AttributeError.  Either way the call ends there: the
\* operation is gone, the clock, the state, the queues and the memory
\* counter are untouched and lines 92-100 are not executed.
run_process(pid) ==
    /\ Len(Proc(pid).operations) > 0
    /\ processes' = PopOperation(processes, pid)
    /\ calls' = Append(calls, "AttributeError")
    /\ UNCHANGED <<new_queue, pid_counter, programs>>

\* line 80 on an empty backlog: pop(0) raises IndexError
run_process_empty(pid) ==
    /\ Len(Proc(pid).operations) = 0
    /\ calls' = Append(calls, "IndexError")
    /\ UNCHANGED <<processes, new_queue, pid_counter, programs>>

\* interrupt(pid, duration), lines 129-132: set_wait, sleep, return
interrupt(pid) ==
    /\ processes' = [processes EXCEPT ![pid + 1] = set_wait(@)]
    /\ calls' = Append(calls, "returned")
    /\ UNCHANGED <<new_queue, pid_counter, programs>>

\* occupy_cpu(pid, duration), lines 119-127.  With duration > 0 the first
\* round sleeps, adds 1 to the clock (line 123) and evaluates random() at
\* line 125; random is the module, so the call raises TypeError.  With
\* duration <= 0 the loop is not entered.
occupy_cpu(pid, duration) ==
    /\ IF duration > 0
       THEN /\ processes' = [processes EXCEPT
                               ![pid + 1] = increment_clock_time(@, 1)]
            /\ calls' = Append(calls, "TypeError")
       ELSE /\ processes' = processes
            /\ calls' = Append(calls, "returned")
    /\ UNCHANGED <<new_queue, pid_counter, programs>>

\* spawn_child(pid, duration), lines 134-139, the template file present:
\* set_wait, then generate_from_file on the parsed template
spawn_child(pid, memory, descs, cycles) ==
    LET child == [Process(pid_counter, memory) EXCEPT
                    !.operations = BuildOperations(descs, cycles)]
    IN  /\ processes' = Append([processes EXCEPT ![pid + 1] = set_wait(@)],
                               child)
        /\ new_queue' = Append(new_queue, child.pid)
        /\ pid_counter' = pid_counter + 1
        /\ programs' = Append(programs, child.operations)
        /\ calls' = Append(calls, "returned")

\* spawn_child with templates/program_file.xml absent: set_wait, then
\* line 25 raises FileNotFoundError
spawn_child_no_file(pid) ==
    /\ processes' = [processes EXCEPT ![pid + 1] = set_wait(@)]
    /\ calls' = Append(calls, "FileNotFoundError")
    /\ UNCHANGED <<new_queue, pid_counter, programs>>

Min(a, b) == IF a <= b THEN a ELSE b

\* run_op(pid, operation), lines 102-117, the arguments in the declared
\* order.  A CALCULATE never reaches lines 112-113: occupy_cpu raises in
\* its first round.
run_op(pid, operation) ==
    \/ /\ operation.name = "CALCULATE"
       /\ occupy_cpu(pid, Min(operation.cycle_length, time_slice))
    \/ /\ operation.name = "I/O"
       /\ interrupt(pid)
    \/ /\ operation.name = "FORK"
       /\ \/ /\ Len(processes) < MaxCallProcs
             /\ \E file \in ProgramFiles :
                  \E cycles \in CycleChoices(file.descs) :
                     spawn_child(pid, file.memory, file.descs, cycles)
          \/ spawn_child_no_file(pid)

\* operations handed to a direct run_op call
CallOperations ==
    { Operation("CALCULATE", 5, FALSE), Operation("CALCULATE", 2, FALSE),
      Operation("CALCULATE", 0, FALSE), Operation("I/O", 1, TRUE),
      Operation("FORK", 1, FALSE) }

\* a direct call: when it is made and what it leaves alone
CallFrame ==
    /\ pc \in CallPoints
    /\ Len(calls) < MaxCalls
    /\ UNCHANGED <<ready_queue, waiting_queue, exit_queue, memory_available,
                   memory_lock, critical_lock, semaphore, pc, process, threads>>

RunProcess(pid) == CallFrame /\ run_process(pid)

RunProcessEmpty(pid) == CallFrame /\ run_process_empty(pid)

RunOp(pid, operation) == CallFrame /\ run_op(pid, operation)

OccupyCpu(pid, duration) ==
    /\ CallFrame
    /\ occupy_cpu(pid, duration)

Interrupt(pid) == CallFrame /\ interrupt(pid)

SpawnChild(pid) ==
    /\ CallFrame
    /\ Len(processes) < MaxCallProcs
    /\ \E file \in ProgramFiles :
         \E cycles \in CycleChoices(file.descs) :
            spawn_child(pid, file.memory, file.descs, cycles)

SpawnChildNoFile(pid) == CallFrame /\ spawn_child_no_file(pid)

\* a direct load_to_memory(pid): the process need not be NEW nor at the
\* head of new_queue, and it stays in whatever queue it is in
LoadToMemory(pid) ==
    /\ pc \in CallPoints
    /\ Len(calls) < MaxCalls
    /\ \E result \in BOOLEAN :
         /\ load_to_memory(pid, result)
         /\ calls' = Append(calls, IF result THEN "True" ELSE "False")
    /\ UNCHANGED <<new_queue, waiting_queue, exit_queue, pid_counter,
                   memory_lock, critical_lock, semaphore, pc, process,
                   threads, programs>>

NextCall ==
    \/ Next /\ pid_counter' <= MaxCallProcs
    \/ \E pid \in Pids : RunProcess(pid)
    \/ \E pid \in Pids : RunProcessEmpty(pid)
    \/ \E pid \in Pids, operation \in CallOperations : RunOp(pid, operation)
    \/ \E pid \in Pids, duration \in 0 .. time_slice : OccupyCpu(pid, duration)
    \/ \E pid \in Pids : Interrupt(pid)
    \/ \E pid \in Pids : SpawnChild(pid)
    \/ \E pid \in Pids : SpawnChildNoFile(pid)
    \/ \E pid \in Pids : LoadToMemory(pid)

\* the program on a workload of at most MaxCallProcs processes, and the
\* methods of the core called directly by the main thread, at most
\* MaxCalls times, whenever it is outside scheduler()
SpecCall == Init /\ [][NextCall]_vars

\* ------------------------------------------------------------ properties
Admitted == {"READY", "RUNNING", "WAITING"}

RECURSIVE MemoryHeld(_, _)
MemoryHeld(procs, n) ==
    IF n = 0 THEN 0
    ELSE (IF procs[n].state \in Admitted THEN procs[n].memory ELSE 0)
         + MemoryHeld(procs, n - 1)

InQueue(q, pid) == \E i \in 1 .. Len(q) : q[i] = pid
Occurrences(q, pid) == Cardinality({ i \in 1 .. Len(q) : q[i] = pid })

\* scheduler() has returned and every thread it started has ended: nothing
\* of this call is left to run
RunOver == pc = "returned" /\ Alive = {}

\* C1: memory_available plus the demands of the processes that are READY,
\* RUNNING or WAITING is the total capacity, in every reachable state
MemoryConservation ==
    memory_available + MemoryHeld(processes, Len(processes)) = TotalMemory

\* C1 witness: two processes are resident, one of them already dispatched
MemoryConservationWitness ==
    /\ \E a \in Pids : Proc(a).state = "RUNNING"
    /\ \E b \in Pids : Proc(b).state = "READY"
    /\ memory_available < TotalMemory

\* C3: every admitted process gives its memory back exactly once, so once
\* the run is over the counter is back at the total capacity
MemoryReleasedOnce ==
    RunOver => memory_available = TotalMemory

\* C4: a process is in at most one queue and in exactly the queue of its
\* state; RUNNING processes are in none
StateQueueConsistency ==
    \A pid \in Pids :
        /\ Occurrences(new_queue, pid) + Occurrences(ready_queue, pid)
             + Occurrences(waiting_queue, pid)
             + Occurrences(exit_queue, pid) <= 1
        /\ InQueue(new_queue, pid) <=> Proc(pid).state = "NEW"
        /\ InQueue(ready_queue, pid) <=> Proc(pid).state = "READY"
        /\ InQueue(waiting_queue, pid) <=> Proc(pid).state = "WAITING"
        /\ InQueue(exit_queue, pid) <=> Proc(pid).state = "EXIT"

\* C5: when the run is over every process, each with a finite operation
\* list and a demand within the total memory, has reached EXIT
Termination ==
    RunOver => \A pid \in Pids : Proc(pid).state = "EXIT"

\* C6: when every demand is below the capacity, a process that has to wait
\* for memory neither stays NEW for good nor keeps the processes admitted
\* before it from being dispatched: scheduler() does not end with a
\* process still NEW or still READY
BlockedAdmissionServed ==
    (/\ pc \in {"returned", "raised"}
     /\ \A pid \in Pids : Proc(pid).memory < TotalMemory)
    => \A pid \in Pids : Proc(pid).state \notin {"NEW", "READY"}

\* C7: at most W = 4 started threads have not ended yet
WorkerBound == Cardinality(Alive) <= SemaphoreInit

\* C8: the admission step admits the head of the new queue (READY, at the
\* ready-queue tail, demand deducted) exactly when its demand is at most
\* memory_available, and otherwise changes neither counter nor ready queue
\* and leaves the process at the head of the new queue
AdmissionDecision ==
    [][(pc = "adm_body" /\ pc' # "adm_body") =>
        LET pid == Head(new_queue)
            memory == Proc(pid).memory
        IN  IF memory <= memory_available
            THEN /\ processes'[pid + 1].state = "READY"
                 /\ ready_queue' = Append(ready_queue, pid)
                 /\ memory_available' = memory_available - memory
                 /\ new_queue' = Tail(new_queue)
            ELSE /\ processes' = processes
                 /\ ready_queue' = ready_queue
                 /\ memory_available' = memory_available
                 /\ new_queue' = new_queue]_vars

\* C9: the new queue is in submission (pid) order and no process submitted
\* after a process that is still in the new queue has been admitted
FifoAdmission ==
    /\ \A i, j \in 1 .. Len(new_queue) :
          i < j => new_queue[i] < new_queue[j]
    /\ \A a, b \in Pids :
          (InQueue(new_queue, a) /\ a < b) => Proc(b).state = "NEW"

\* C9 witness: the head did not fit, a later process would have fitted,
\* the admission attempt is over and both are still NEW
FifoAdmissionWitness ==
    /\ pc = "raised"
    /\ \E a, b \in Pids :
          /\ a < b
          /\ new_queue # <<>> /\ Head(new_queue) = a
          /\ InQueue(new_queue, b)
          /\ ~FitsInMemory(Proc(a).memory, memory_available)
          /\ FitsInMemory(Proc(b).memory, memory_available)
          /\ memory_available < TotalMemory

\* C10: scheduler() returns only with both queues empty and no thread of
\* its own still running
SchedulerCompletion ==
    pc = "returned" =>
        /\ new_queue = <<>>
        /\ ready_queue = <<>>
        /\ Alive = {}

\* the state changes of section 4.3
AllowedTransitions ==
    { <<"NEW", "READY">>, <<"READY", "RUNNING">>, <<"RUNNING", "READY">>,
      <<"RUNNING", "WAITING">>, <<"RUNNING", "EXIT">>,
      <<"WAITING", "READY">> }

\* C11: every step leaves the state of each process alone or changes it
\* along one of the six allowed transitions (so RUNNING is entered from
\* READY only and EXIT is never left), and a process is created NEW
StateMachine ==
    [][/\ \A pid \in Pids :
            \/ processes'[pid + 1].state = Proc(pid).state
            \/ <<Proc(pid).state, processes'[pid + 1].state>>
                   \in AllowedTransitions
       /\ \A i \in (Len(processes) + 1) .. Len(processes') :
            processes'[i].state = "NEW"]_vars

\* C11 witness: one process has gone NEW, READY, RUNNING and its thread has
\* ended, a second one is READY behind it and a third is still NEW
StateMachineWitness ==
    /\ \E a \in Pids : Proc(a).state = "RUNNING" /\ Alive = {}
    /\ \E b \in Pids : Proc(b).state = "READY"
    /\ \E c \in Pids : Proc(c).state = "NEW"

\* a step in which the backlog of a RUNNING process changes: one
\* run_process(pid) on a process the scheduler has marked RUNNING
Dispatched(pid) ==
    /\ Proc(pid).state = "RUNNING"
    /\ Proc(pid).operations # <<>>
    /\ processes'[pid + 1].operations # Proc(pid).operations

\* C12: one dispatch of a CALCULATE operation adds min(remaining cycles,
\* time_slice) to the clock of the process, and the operation is then
\* either gone from the backlog or back at its head with fewer cycles
TimeSliceBound ==
    [][\A pid \in Pids :
        (Dispatched(pid) /\ Head(Proc(pid).operations).name = "CALCULATE")
        => LET op == Head(Proc(pid).operations)
               after == processes'[pid + 1]
           IN  /\ after.clock_time
                    = Proc(pid).clock_time + Min(op.cycle_length, time_slice)
               /\ \/ after.operations = Tail(Proc(pid).operations)
                  \/ /\ after.operations # <<>>
                     /\ Head(after.operations).name = "CALCULATE"
                     /\ Head(after.operations).cycle_length < op.cycle_length
                     /\ Tail(after.operations) = Tail(Proc(pid).operations)
      ]_vars

\* C13: pids are handed out 0, 1, 2, ... and never again: the process at
\* index pid of the table carries that pid and the counter is the number
\* of processes created, so no two processes share a pid
PidUniqueness ==
    /\ pid_counter = Len(processes)
    /\ \A pid \in Pids : Proc(pid).pid = pid
    /\ \A i, j \in 1 .. Len(processes) :
          processes[i].pid = processes[j].pid => i = j

\* C13 witness: processes were submitted before and after a scheduler()
\* call, some already dispatched and some not yet admitted
PidUniquenessWitness ==
    /\ Len(processes) >= 3
    /\ \E a, b \in Pids :
          a < b /\ Proc(a).state = "RUNNING" /\ InQueue(new_queue, b)

\* C14: a step of scheduler() or of a worker that changes memory_available
\* or the contents of one of the four queues is taken by a thread that
\* holds memory_lock
MutexDiscipline ==
    [][(/\ pc \notin {"idle", "returned"}
        /\ \/ memory_available' # memory_available
           \/ new_queue' # new_queue
           \/ ready_queue' # ready_queue
           \/ waiting_queue' # waiting_queue
           \/ exit_queue' # exit_queue)
       => memory_lock # "free"]_vars

\* C15: the dispatch of a FORK operation creates one child with the next
\* unused pid, NEW and in the new queue, and this is so while the parent
\* has not been put back into the ready queue
ForkOrdering ==
    [][\A pid \in Pids :
        (Dispatched(pid) /\ Head(Proc(pid).operations).name = "FORK")
        => /\ Len(processes') = Len(processes) + 1
           /\ processes'[Len(processes')].pid = Len(processes)
           /\ processes'[Len(processes')].state = "NEW"
           /\ InQueue(new_queue', Len(processes))
           /\ ~InQueue(ready_queue', pid)]_vars

\* CALCULATE cycles of a list of operations
RECURSIVE CalculateCycles(_, _)
CalculateCycles(ops, n) ==
    IF n = 0 THEN 0
    ELSE (IF ops[n].name = "CALCULATE" THEN ops[n].cycle_length ELSE 0)
         + CalculateCycles(ops, n - 1)

MemoryBounds ==
    memory_available >= 0 /\ memory_available <= TotalMemory

\* C18: the dispatch of a CALCULATE operation with more than time_slice
\* cycles leaves the same operation at the head of the backlog with
\* time_slice cycles less, the rest of the backlog as it was, and the
\* process at the tail of the ready queue; with at most time_slice cycles
\* the operation is removed and the backlog advances
PreemptionOfCalculate ==
    [][\A pid \in Pids :
        (Dispatched(pid) /\ Head(Proc(pid).operations).name = "CALCULATE")
        => LET ops == Proc(pid).operations
               op == Head(ops)
               after == processes'[pid + 1]
           IN  IF op.cycle_length > time_slice
               THEN /\ after.operations
                         = <<[op EXCEPT !.cycle_length = @ - time_slice]>>
                             \o Tail(ops)
                    /\ ready_queue' = Append(ready_queue, pid)
                    /\ after.state # "EXIT"
               ELSE after.operations = Tail(ops)]_vars

\* C19: the ready queue changes only by losing its head to the scheduler's
\* local `process` or by gaining one process at its tail
RoundRobinOrder ==
    [][\/ ready_queue' = ready_queue
       \/ /\ ready_queue # <<>>
          /\ ready_queue' = Tail(ready_queue)
          /\ process' = Head(ready_queue)
       \/ \E pid \in Pids : ready_queue' = Append(ready_queue, pid)]_vars

\* C19 witness: the first admitted process has been taken from the head
\* and the later ones wait behind it in the order they were admitted
RoundRobinOrderWitness ==
    /\ pc = "disp_start"
    /\ Len(ready_queue) >= 2
    /\ process < ready_queue[1]
    /\ ready_queue[1] < ready_queue[2]

\* the threads that are running for a pid
WorkersOf(pid) == { i \in Alive : threads[i].pid = pid }

\* C20: a pid has at most one live worker, is not in the ready queue while
\* it has one, and is in the ready queue at most once
SingleWorker ==
    \A pid \in Pids :
        /\ Cardinality(WorkersOf(pid)) <= 1
        /\ WorkersOf(pid) # {} => ~InQueue(ready_queue, pid)
        /\ Occurrences(ready_queue, pid) <= 1

\* C20 witness: two workers are live for two processes while a third
\* process waits in the ready queue
SingleWorkerWitness ==
    /\ Cardinality(Alive) >= 2
    /\ ready_queue # <<>>
    /\ \E a, b \in Pids : a # b /\ WorkersOf(a) # {} /\ WorkersOf(b) # {}
====
